---------------------------- MODULE Spec2Model ----------------------------
(***************************************************************************)
(* Model of the bff service of cp2024-yappy-quadriceps: the task           *)
(* controller (CreateTask, the background dispatch, the two Kafka          *)
(* collector loops, GetTask) over the task table, and the score fusion     *)
(* isCopyrighted.                                                          *)
(*                                                                         *)
(* Probabilities are float64 in the code.  The model draws them from the   *)
(* grid k/8 (k an integer): on that grid products and sums are exact in    *)
(* float64 and a correctly rounded quotient compares with 0.75 exactly as  *)
(* the rational quotient does, so a score is kept as the exact fraction    *)
(* num/den, with den = 0 standing for the NaN that 0/0 yields.             *)
(***************************************************************************)
EXTENDS Integers, Sequences, FiniteSets, TLC

VARIABLES
    \* ---- isCopyrighted (one call) ----
    videoCopyright,   \* argument: the task's video candidates
    audioCopyright,   \* argument: the task's audio candidates
    ipc,              \* position of the call
    videoMap,         \* local: name -> probability, then name -> fused score
    audioMap,         \* local: name -> probability
    ret,              \* <<>> before the return, then <<name, isDuplicate>>
    \* ---- the store (Postgres) ----
    tasks,            \* table task: row i has task_id = i (BIGSERIAL)
    origvideo,        \* table origvideo: the reference index
    \* ---- Kafka ----
    audioInput,           \* topic cfg.Kafka.AudioInputTopic: the requests
    videoInput,           \* topic cfg.Kafka.VideoInputTopic: the requests
    videoCopyrightTopic,  \* the topic videoReader consumes
    audioCopyrightTopic,  \* the topic audioReader consumes
    \* ---- the controller ----
    calls,            \* calls[i]: the CreateTask call that inserted row i, and its goroutine
    failedCalls,      \* number of CreateTask calls that returned an error before the INSERT
    videoLoop,        \* the goroutine of videoReader
    audioLoop,        \* the goroutine of audioReader
    logged,           \* TRUE once ctl.log.Error() has written a line
    exited,           \* TRUE once log.Fatal has ended the process
    \* ---- the read side ----
    query,            \* one GetTask or GetTasks call: its arguments and what it returned
    \* ---- the API ----
    runs,             \* runs[c]: how the runCopyright call that made CreateTask call c has ended
    boot              \* main: how far the start of the process has got

fusionVars == <<videoCopyright, audioCopyright, ipc, videoMap, audioMap, ret>>

storeVars == <<tasks, origvideo>>

kafkaVars == <<audioInput, videoInput, videoCopyrightTopic, audioCopyrightTopic>>

ctlVars == <<calls, failedCalls, videoLoop, audioLoop, logged, exited>>

queryVars == <<query>>

apiVars == <<runs, boot>>

vars == <<fusionVars, storeVars, kafkaVars, ctlVars, queryVars, apiVars>>

\* ------------------------------------------------------------------ bounds

\* Longest candidate sequence handed to isCopyrighted.
MaxLen == 3

\* Number of CreateTask calls.
MaxCalls == 2

\* Most result messages the workers publish, on both topics together.
MaxResults == 3

\* Most rows of the task table a GetTask or GetTasks call finds.
MaxRows == 3

\* Width in bits of the model's int32.  The uint64 arguments of GetTasks
\* have one bit more, so that the conversion int32(x) drops a bit and can
\* yield a negative number as it does in the code.
Int32Width == 3

\* ------------------------------------------------------------ value domains

\* Names of matched reference content, in the order the inputs list them.
NameSeq == <<"A", "B", "C">>

Names == {NameSeq[i] : i \in DOMAIN NameSeq}

NameIndex(n) == CHOOSE i \in DOMAIN NameSeq : NameSeq[i] = n

\* Probabilities in eighths: 0, 0.75 and 1.0.
Probs == {0, 6, 8}

\* model.Copyright
Copyright == [Name : Names, Probability : Probs]

\* The candidate sequences of at most MaxLen matches whose names do not
\* decrease: the order of two different names in an input does not reach the
\* maps built from it, a repeated name does (the last occurrence wins).
CandidateSeqs ==
    {s \in UNION {[1..n -> Copyright] : n \in 0..MaxLen} :
        \A i \in 1..(Len(s) - 1) :
            NameIndex(s[i].Name) <= NameIndex(s[i + 1].Name)}

\* ------------------------------------------------------------ isCopyrighted

\* A float64 score as an exact fraction; den = 0 is NaN.
Score(num, den) == [num |-> num, den |-> den]

IsNaN(x) == x.den = 0

\* The float64 comparison x < y: false when either side is NaN.
Less(x, y) == /\ ~IsNaN(x)
              /\ ~IsNaN(y)
              /\ x.num * y.den < y.num * x.den

\* The literal 0.75 of the removal loop.
Threshold == Score(3, 4)

\* 2 * (pv * pa) / (pv + pa) on probabilities in eighths: 0/0 is NaN.
HarmonicMean(pv, pa) == Score(2 * pv * pa, 8 * (pv + pa))

\* for _, v := range s { m[v.Name] = v.Probability }: the last entry of a
\* name is the one the map keeps.
ToMap(s) ==
    [n \in {s[i].Name : i \in DOMAIN s} |->
        s[CHOOSE i \in DOMAIN s :
              /\ s[i].Name = n
              /\ \A j \in DOMAIN s : s[j].Name = n => j <= i].Probability]

\* Mutant of FuseMaps: a name missing from audioMap is not deleted and keeps
\* its video probability as its score.
FuseMaps_NoDelete(vm, am) ==
    [k \in DOMAIN vm |->
        IF k \in DOMAIN am THEN HarmonicMean(vm[k], am[k])
        ELSE Score(vm[k], 8)]

\* The loop over videoMap: a name missing from audioMap is deleted, a name
\* in both gets the fused score.
FuseMaps(vm, am) ==
    [k \in (DOMAIN vm) \cap (DOMAIN am) |-> HarmonicMean(vm[k], am[k])]

\* The orders in which a range over a map with key set S may yield its keys.
Orders(S) ==
    {o \in [1..Cardinality(S) -> S] :
        \A i, j \in 1..Cardinality(S) : i # j => o[i] # o[j]}

\* finProbs as appended in the order o of the range over videoMap.
Collect(m, o) == [i \in DOMAIN o |-> [Name |-> o[i], Probability |-> m[o[i]]]]

RECURSIVE RemoveLoop(_, _, _)
\* for i := range finProbs { if finProbs[i].Probability < 0.75 { swap the
\* last element in, shrink the slice } }.  The range is evaluated once, so i
\* runs to the original length n; indexing the shrunk slice at i >= len
\* panics (index out of range).  i is 1-based here.
RemoveLoop(fp, i, n) ==
    IF i > n THEN [panic |-> FALSE, fp |-> fp]
    ELSE IF i > Len(fp) THEN [panic |-> TRUE, fp |-> fp]
    ELSE IF Less(fp[i].Probability, Threshold)
         THEN RemoveLoop(SubSeq([fp EXCEPT ![i] = fp[Len(fp)]], 1, Len(fp) - 1),
                         i + 1, n)
         ELSE RemoveLoop(fp, i + 1, n)

Swap(a, i, j) == [a EXCEPT ![i] = a[j], ![j] = a[i]]

RECURSIVE InsertBack(_, _)
\* for j := i; j > a && less(j, j-1); j-- { swap(j, j-1) }
InsertBack(a, j) ==
    IF j > 1 /\ Less(a[j].Probability, a[j - 1].Probability)
    THEN InsertBack(Swap(a, j, j - 1), j - 1)
    ELSE a

RECURSIVE InsertionSort(_, _)
\* sort.Slice on fewer than 12 elements is the insertion sort of package
\* sort, with less = finProbs[i].Probability < finProbs[j].Probability.
InsertionSort(a, i) ==
    IF i > Len(a) THEN a ELSE InsertionSort(InsertBack(a, i), i + 1)

SortSlice(a) == InsertionSort(a, 2)

\* Mutant of EntryCheck: && for ||.
EntryCheck_And(v, a) == Len(v) = 0 /\ Len(a) = 0

\* len(videoCopyright) == 0 || len(audioCopyright) == 0
EntryCheck(v, a) == Len(v) = 0 \/ Len(a) = 0

NoReturn == <<>>

NotDuplicate == <<"", FALSE>>

\* Lines 297-300: the early return on an empty side.
isCopyrightedEntry ==
    /\ ipc = "entry"
    /\ IF EntryCheck(videoCopyright, audioCopyright)
       THEN /\ ipc' = "ret299"
            /\ ret' = NotDuplicate
       ELSE /\ ipc' = "maps"
            /\ ret' = ret
    /\ UNCHANGED <<videoCopyright, audioCopyright, videoMap, audioMap>>
    /\ UNCHANGED <<apiVars, storeVars, kafkaVars, ctlVars, queryVars>>

\* Lines 302-323: both maps, the intersection with the fused scores, and
\* the return when nothing is left.
isCopyrightedFuse ==
    /\ ipc = "maps"
    /\ audioMap' = ToMap(audioCopyright)
    /\ videoMap' = FuseMaps(ToMap(videoCopyright), ToMap(audioCopyright))
    /\ IF DOMAIN videoMap' = {}
       THEN /\ ipc' = "ret322"
            /\ ret' = NotDuplicate
       ELSE /\ ipc' = "select"
            /\ ret' = ret
    /\ UNCHANGED <<videoCopyright, audioCopyright>>
    /\ UNCHANGED <<apiVars, storeVars, kafkaVars, ctlVars, queryVars>>

\* Lines 325-349: finProbs in the map's iteration order, the removal loop,
\* the ascending sort and the return of the first element.
isCopyrightedSelect ==
    /\ ipc = "select"
    /\ \E o \in Orders(DOMAIN videoMap) :
           LET r == RemoveLoop(Collect(videoMap, o), 1, Len(o))
               sorted == SortSlice(r.fp)
           IN  IF r.panic
               THEN /\ ipc' = "panic"
                    /\ ret' = ret
               ELSE IF Len(sorted) = 0
                    THEN /\ ipc' = "ret346"
                         /\ ret' = NotDuplicate
                    ELSE /\ ipc' = "ret349"
                         /\ ret' = <<sorted[1].Name, TRUE>>
    /\ UNCHANGED <<videoCopyright, audioCopyright, videoMap, audioMap>>
    /\ UNCHANGED <<apiVars, storeVars, kafkaVars, ctlVars, queryVars>>

\* What a call isCopyrighted(v, a) can end with: the pairs it can return,
\* one for each order the range over videoMap can take, and NoReturn where
\* it panics.
isCopyrightedResults(v, a) ==
    IF EntryCheck(v, a) THEN {NotDuplicate}
    ELSE LET vm == FuseMaps(ToMap(v), ToMap(a)) IN
         IF DOMAIN vm = {} THEN {NotDuplicate}
         ELSE {LET r == RemoveLoop(Collect(vm, o), 1, Len(o))
                   sorted == SortSlice(r.fp)
               IN  IF r.panic THEN NoReturn
                   ELSE IF Len(sorted) = 0 THEN NotDuplicate
                   ELSE <<sorted[1].Name, TRUE>> : o \in Orders(DOMAIN vm)}

\* -------------------------------------------------------------- the store

\* task_status of task_schema.sql
TaskStatusInProgress == "in_progress"

TaskStatusFail == "fail"

\* Mutant of TaskStatusDone: the value 'fail'.
TaskStatusDone_Fail == "fail"

TaskStatusDone == "done"

\* A JSONB column or a message value is a JSON object, kept as the record
\* of its keys.  NullJSON is the SQL NULL of a column never written: no bytes.
NullJSON == [null |-> TRUE]

\* json.Marshal(model.Copyright{Name: name, Probability: 1}):
\* {"Name": name, "Probability": 1}
MarshalCopyright(name) == [Name |-> name, Probability |-> 8]

\* A result message as a worker encodes it:
\* {"task_id": id, "copyright": [...]}
MarshalResponse(id, copy) == [task_id |-> id, copyright |-> copy]

\* json.Unmarshal(b, &k) with k a model.KafkaResponse: the keys task_id and
\* copyright are read, any other key is skipped, a missing key leaves the
\* zero value.  (On the NULL column Unmarshal fails and taskToModel puts the
\* zero KafkaResponse in its place, which is the same value.)
Unmarshal(b) ==
    [TaskID |-> IF "task_id" \in DOMAIN b THEN b.task_id ELSE 0,
     Copy |-> IF "copyright" \in DOMAIN b THEN b.copyright ELSE <<>>]

\* A payload json.Unmarshal rejects: bytes that are no JSON document, or one
\* whose task_id or copyright has another type.
Malformed == [malformed |-> TRUE]

\* Mutant of UnmarshalErr: every payload is taken as decoded.
UnmarshalErr_Nil(b) == FALSE

\* err != nil of json.Unmarshal(b, &k).
UnmarshalErr(b) == b = Malformed

\* Mutant of InsertTask: the row is inserted twice.
InsertTask_Twice(t, status) ==
    t \o <<[status |-> status,
            video_copyright |-> NullJSON,
            audio_copyright |-> NullJSON],
           [status |-> status,
            video_copyright |-> NullJSON,
            audio_copyright |-> NullJSON]>>

\* -- name: CreateTask :one  (the copyright columns are not in the INSERT)
InsertTask(t, status) ==
    Append(t, [status |-> status,
               video_copyright |-> NullJSON,
               audio_copyright |-> NullJSON])

\* -- name: UpdateTaskAudioCopyright :exec
UpdateTaskAudioCopyright(t, id, value) ==
    [i \in DOMAIN t |->
        IF i = id THEN [t[i] EXCEPT !.audio_copyright = value] ELSE t[i]]

\* Mutant of UpdateTaskVideoCopyright: the statement of the other column.
UpdateTaskVideoCopyright_AudioColumn(t, id, value) ==
    UpdateTaskAudioCopyright(t, id, value)

\* Mutant of UpdateTaskVideoCopyright: the new candidates are appended to
\* the stored ones (video_copyright || $2) instead of replacing them.
UpdateTaskVideoCopyright_Concat(t, id, value) ==
    [i \in DOMAIN t |->
        IF i = id
        THEN [t[i] EXCEPT !.video_copyright =
                 IF "copyright" \in DOMAIN value
                 THEN [value EXCEPT !.copyright =
                          Unmarshal(t[i].video_copyright).Copy \o value.copyright]
                 ELSE value]
        ELSE t[i]]

\* Mutant of UpdateTaskVideoCopyright: the statement without its WHERE
\* clause, every row is written.
UpdateTaskVideoCopyright_AllRows(t, id, value) ==
    [i \in DOMAIN t |-> [t[i] EXCEPT !.video_copyright = value]]

\* -- name: UpdateTaskVideoCopyright :exec
UpdateTaskVideoCopyright(t, id, value) ==
    [i \in DOMAIN t |->
        IF i = id THEN [t[i] EXCEPT !.video_copyright = value] ELSE t[i]]

\* -- name: UpdateTaskStatus :exec
UpdateTaskStatus(t, id, status) ==
    [i \in DOMAIN t |->
        IF i = id THEN [t[i] EXCEPT !.status = status] ELSE t[i]]

\* The rows of a set in descending video_id order.
RECURSIVE OrderDesc(_)
OrderDesc(rows) ==
    IF rows = {} THEN <<>>
    ELSE LET top == CHOOSE r \in rows :
                        \A q \in rows : NameIndex(q.video_id) <= NameIndex(r.video_id)
         IN  <<top>> \o OrderDesc(rows \ {top})

\* Mutant of GetOrigVideosByHash: the statement without its WHERE clause.
GetOrigVideosByHash_AnyHash(hash) == OrderDesc(origvideo)

\* -- name: GetOrigVideosByHash :many
GetOrigVideosByHash(hash) ==
    OrderDesc({r \in origvideo : r.video_hash = hash})

\* statusToModel
statusToModel(s) ==
    CASE s = TaskStatusDone -> "Done"
      [] s = TaskStatusFail -> "Failed"
      [] s = TaskStatusInProgress -> "InProgress"
      [] OTHER -> "Failed"

\* taskToModel
taskToModel(id, t) ==
    [TaskID |-> id,
     Status |-> statusToModel(t.status),
     VideoCopyright |-> Unmarshal(t.video_copyright).Copy,
     AudioCopyright |-> Unmarshal(t.audio_copyright).Copy]

\* TaskController.GetTask on an existing id.
GetTask(id) == taskToModel(id, tasks[id])

\* The verdict runCopyright computes from a row it has read as done:
\* isCopyrighted(m.VideoCopyright, m.AudioCopyright).
Verdict(row) ==
    isCopyrightedResults(taskToModel(0, row).VideoCopyright,
                         taskToModel(0, row).AudioCopyright)

\* --------------------------------------------------------------- CreateTask

\* MD5 digests of the uploads: HashSeen is in the reference index.
HashSeen == "h-seen"

HashNew == "h-new"

Hashes == {HashSeen, HashNew}

\* What a CreateTask call has returned: nothing yet, (id, nil) or (0, err).
Pending == [done |-> FALSE, id |-> 0, err |-> FALSE]

ReturnID(id) == [done |-> TRUE, id |-> id, err |-> FALSE]

ReturnErr == [done |-> TRUE, id |-> 0, err |-> TRUE]

\* Mutant of DispatchOrder: the status write moved behind the publishes.
DispatchOrder_StatusLast == <<"audio", "video", "status">>

\* The statements of checkForCopyright in their order.
DispatchOrder == <<"status", "audio", "video">>

\* Mutant of FastCall: the fast path starts the goroutine of
\* checkForCopyright as the slow path does.
FastCall_Dispatching(videos) ==
    [pc |-> "wvideo", videos |-> videos, ret |-> Pending, go |-> "running", step |-> 1]

\* The call that has just inserted its row on the fast path.
FastCall(videos) ==
    [pc |-> "wvideo", videos |-> videos, ret |-> Pending, go |-> "none", step |-> 0]

\* Mutant of SlowCall: the call waits for checkForCopyright before it
\* returns.
SlowCall_Awaiting(id) ==
    [pc |-> "returned", videos |-> <<>>, ret |-> Pending,
     go |-> "running", step |-> 1]

\* The call that has inserted its row on the slow path, started the
\* goroutine of checkForCopyright and returned the id.
SlowCall(id) ==
    [pc |-> "returned", videos |-> <<>>, ret |-> ReturnID(id),
     go |-> "running", step |-> 1]

\* ---------------------------------------------------------- main and New

\* Mutant of BootOrder: the topics are provisioned before the store and the
\* storage client are constructed.
BootOrder_TopicsFirst ==
    <<"createTopics", "pgxpool", "minio", "handleKafkaInput", "Start">>

\* The statements of main that can fail or have an effect, in the order the
\* code runs them: in taskcontroller.New (called from the API's New)
\* pgxpool.New, minio.NewMinioClient, createTopics and handleKafkaInput,
\* then a.Start in main.
BootOrder ==
    <<"pgxpool", "minio", "createTopics", "handleKafkaInput", "Start">>

\* The process as main begins: step is the statement of BootOrder it is
\* about to run; failed once New has returned an error and main has logged
\* it and returned; topics once createTopics has run; server once a.Start
\* is serving.
Started == [step |-> 1, failed |-> FALSE, topics |-> FALSE, server |-> FALSE]

\* The process after main has started the HTTP server.
Serving ==
    [step |-> Len(BootOrder) + 1, failed |-> FALSE, topics |-> TRUE, server |-> TRUE]

\* The statement has run and main goes on to the next one.
BootDone == [boot EXCEPT !.step = @ + 1]

\* main is about to run that statement.
Booting(name) ==
    /\ ~boot.failed
    /\ boot.step <= Len(BootOrder)
    /\ BootOrder[boot.step] = name

\* A collector goroutine that has not been started.
NotStarted == [pc |-> "off", offset |-> 0, value |-> NullJSON]

\* The call record with the hash getHashFromVideo computed for the upload.
WithHash(call, h) ==
    [f \in DOMAIN call \cup {"hash"} |-> IF f = "hash" THEN h ELSE call[f]]

\* The ways the inline steps before and at the INSERT end: all succeed, one
\* of them returns its error, or the io.Copy of getHashFromVideo fails and
\* log.Fatal ends the process.
InsertOutcomes == {"ok", "err", "fatal"}

\* Lines 249-281 and 314-347.  The upload, the audio derivation, the hash
\* and the index lookup read and write nothing the controller shares; a
\* failure of one of them, or of the INSERT, returns the error, except the
\* read of the stream in getHashFromVideo, whose failure is log.Fatal.  On a hit
\* the row is inserted with status done and the call goes on to the two
\* copyright writes; on a miss the row is inserted with status in_progress,
\* the goroutine of checkForCopyright is started and the id is returned.
CreateTaskInsert ==
    /\ ~exited
    /\ boot.server
    /\ Len(tasks) + failedCalls < MaxCalls
    /\ \E outcome \in InsertOutcomes, h \in Hashes :
           LET videos == GetOrigVideosByHash(h) IN
           IF outcome = "fatal"
           THEN /\ exited' = TRUE
                /\ UNCHANGED <<tasks, calls, failedCalls>>
           ELSE IF outcome = "err"
           THEN /\ failedCalls' = failedCalls + 1
                /\ UNCHANGED <<tasks, calls, exited>>
           ELSE IF Len(videos) # 0
                THEN /\ tasks' = InsertTask(tasks, TaskStatusDone)
                     /\ calls' = Append(calls, WithHash(FastCall(videos), h))
                     /\ UNCHANGED <<failedCalls, exited>>
                ELSE /\ tasks' = InsertTask(tasks, TaskStatusInProgress)
                     /\ calls' = Append(calls,
                                     WithHash(SlowCall(Len(tasks) + 1), h))
                     /\ UNCHANGED <<failedCalls, exited>>
    /\ UNCHANGED <<apiVars, queryVars, fusionVars, origvideo, kafkaVars, videoLoop, audioLoop, logged>>

\* Lines 283-301: the fast path writes the marshalled Copyright of the
\* first reference to video_copyright.
CreateTaskWriteVideo(c) ==
    /\ ~exited
    /\ calls[c].pc = "wvideo"
    /\ \E ok \in BOOLEAN :
           IF ok
           THEN /\ tasks' = UpdateTaskVideoCopyright(tasks, c,
                                MarshalCopyright(calls[c].videos[1].video_id))
                /\ calls' = [calls EXCEPT ![c].pc = "waudio"]
           ELSE /\ tasks' = tasks
                /\ calls' = [calls EXCEPT ![c].pc = "returned",
                                          ![c].ret = ReturnErr]
    /\ UNCHANGED <<apiVars, queryVars, fusionVars, origvideo, kafkaVars, failedCalls, exited, videoLoop, audioLoop, logged>>

\* Lines 303-311: the same bytes to audio_copyright, then the id is returned.
CreateTaskWriteAudio(c) ==
    /\ ~exited
    /\ calls[c].pc = "waudio"
    /\ \E ok \in BOOLEAN :
           IF ok
           THEN /\ tasks' = UpdateTaskAudioCopyright(tasks, c,
                                MarshalCopyright(calls[c].videos[1].video_id))
                /\ calls' = [calls EXCEPT ![c].pc = "returned",
                                          ![c].ret = ReturnID(c)]
           ELSE /\ tasks' = tasks
                /\ calls' = [calls EXCEPT ![c].pc = "returned",
                                          ![c].ret = ReturnErr]
    /\ UNCHANGED <<apiVars, queryVars, fusionVars, origvideo, kafkaVars, failedCalls, exited, videoLoop, audioLoop, logged>>

\* ------------------------------------------------------- checkForCopyright

\* The goroutine of call c is about to run statement s.
DispatchAt(c, s) ==
    /\ calls[c].go = "running"
    /\ DispatchOrder[calls[c].step] = s

\* The goroutine after a statement: the next one, the nil return after the
\* last, or the error return, which the goroutine logs.
DispatchStep(c, ok) ==
    IF ~ok THEN [calls EXCEPT ![c].go = "failed"]
    ELSE IF calls[c].step = Len(DispatchOrder)
         THEN [calls EXCEPT ![c].go = "ok"]
         ELSE [calls EXCEPT ![c].step = calls[c].step + 1]

\* Lines 352-360: UpdateTaskStatus(in_progress).
DispatchStatus(c) ==
    /\ ~exited
    /\ DispatchAt(c, "status")
    /\ \E ok \in BOOLEAN :
           /\ calls' = DispatchStep(c, ok)
           /\ tasks' = IF ok
                       THEN UpdateTaskStatus(tasks, c, TaskStatusInProgress)
                       ELSE tasks
           /\ logged' = (logged \/ ~ok)
    /\ UNCHANGED <<apiVars, queryVars, fusionVars, origvideo, kafkaVars, failedCalls, exited, videoLoop, audioLoop>>

\* Mutant of MarshalLink: the request carries the id after the task's.
MarshalLink_NextID(id, url) == [task_id |-> id + 1, link |-> url]

\* model.KafkaLink as marshalled: {"task_id": id, "link": url}
MarshalLink(id, url) == [task_id |-> id, link |-> url]

\* Lines 362-389: the two GetFileURL calls and the request on the audio
\* input topic; a failure of any of them returns before anything is sent.
DispatchAudio(c) ==
    /\ ~exited
    /\ DispatchAt(c, "audio")
    /\ \E ok \in BOOLEAN :
           /\ calls' = DispatchStep(c, ok)
           /\ audioInput' = IF ok
                            THEN Append(audioInput, MarshalLink(c, "audioUrl"))
                            ELSE audioInput
           /\ logged' = (logged \/ ~ok)
    /\ UNCHANGED <<apiVars, queryVars, fusionVars, storeVars, videoInput, videoCopyrightTopic,
                   audioCopyrightTopic, failedCalls, exited, videoLoop, audioLoop>>

\* Lines 391-406: the request on the video input topic.
DispatchVideo(c) ==
    /\ ~exited
    /\ DispatchAt(c, "video")
    /\ \E ok \in BOOLEAN :
           /\ calls' = DispatchStep(c, ok)
           /\ videoInput' = IF ok
                            THEN Append(videoInput, MarshalLink(c, "videoUrl"))
                            ELSE videoInput
           /\ logged' = (logged \/ ~ok)
    /\ UNCHANGED <<apiVars, queryVars, fusionVars, storeVars, audioInput, videoCopyrightTopic,
                   audioCopyrightTopic, failedCalls, exited, videoLoop, audioLoop>>

\* ------------------------------------------------------------- the workers

\* The candidate sequences a worker answers with.
ResultCandidates == {<<>>, <<[Name |-> "A", Probability |-> 8]>>}

\* The tasks a request has been published for, on each input topic.
RequestedVideo == {videoInput[i].task_id : i \in DOMAIN videoInput}

RequestedAudio == {audioInput[i].task_id : i \in DOMAIN audioInput}

\* cfg.Kafka.VideoCopyrightTopic and cfg.Kafka.AudioCopyrightTopic under the
\* default configuration: the env-default of each field (the deployment sets
\* neither variable for the controller).
KafkaVideoCopyrightTopic == "audio-copyright"

KafkaAudioCopyrightTopic == "video-copyright"

\* KAFKA_PRODUCE_TOPIC of the video worker (video_copy) and of the audio
\* worker (wav2vec) in the deployment.
VideoCopyProduceTopic == "video-copyright"

Wav2vecProduceTopic == "audio-copyright"

\* A message produced on the topic of that name: it is appended to the log
\* videoReader consumes when that is the topic videoReader was created on
\* (cfg.Kafka.VideoCopyrightTopic), and the same for audioReader.
Produce(topic, msg) ==
    /\ videoCopyrightTopic' = IF topic = KafkaVideoCopyrightTopic
                              THEN Append(videoCopyrightTopic, msg)
                              ELSE videoCopyrightTopic
    /\ audioCopyrightTopic' = IF topic = KafkaAudioCopyrightTopic
                              THEN Append(audioCopyrightTopic, msg)
                              ELSE audioCopyrightTopic

\* The payloads a worker answers the request of a task with: a result with
\* one of the candidate sequences, or a payload that cannot be decoded.
Answers(id) ==
    {MarshalResponse(id, copy) : copy \in ResultCandidates} \cup {Malformed}

\* The video worker answers a request published on the video input topic,
\* on its produce topic;
\* a request may be answered more than once (at-least-once delivery).
PublishVideoResult ==
    /\ Len(videoCopyrightTopic) + Len(audioCopyrightTopic) < MaxResults
    /\ \E id \in RequestedVideo :
           \E msg \in Answers(id) : Produce(VideoCopyProduceTopic, msg)
    /\ UNCHANGED <<apiVars, queryVars, fusionVars, storeVars, audioInput, videoInput,
                   ctlVars>>

\* The same for the audio worker and the audio input topic.
PublishAudioResult ==
    /\ Len(videoCopyrightTopic) + Len(audioCopyrightTopic) < MaxResults
    /\ \E id \in RequestedAudio :
           \E msg \in Answers(id) : Produce(Wav2vecProduceTopic, msg)
    /\ UNCHANGED <<apiVars, queryVars, fusionVars, storeVars, audioInput, videoInput,
                   ctlVars>>

\* ------------------------------------------------------ handleKafkaInput

\* A collector goroutine blocked in ReadMessage, offset messages consumed.
AtRead(offset) == [pc |-> "read", offset |-> offset, value |-> NullJSON]

\* A collector goroutine in checkTaskDone for the message it consumed.
AtReread(offset, value) == [pc |-> "reread", offset |-> offset, value |-> value]

\* Mutant of BothSet: the lengths of the decoded candidate lists in place
\* of the lengths of the stored bytes.
BothSet_Candidates(task) ==
    /\ Len(Unmarshal(task.audio_copyright).Copy) # 0
    /\ Len(Unmarshal(task.video_copyright).Copy) # 0

\* The check of checkTaskDone, on the row as pgConn.GetTask returns it (the
\* stored bytes of both columns):
\* len(task.AudioCopyright) != 0 && len(task.VideoCopyright) != 0
BothSet(task) ==
    task.audio_copyright # NullJSON /\ task.video_copyright # NullJSON

\* checkTaskDone after its GetTask: on an error (the store's, or no row with
\* that id) it logs and returns, with both columns set it goes on to the
\* status write, otherwise it returns.
LoopReread(loop, ok) ==
    LET id == Unmarshal(loop.value).TaskID IN
    IF ok /\ id \in DOMAIN tasks /\ BothSet(tasks[id])
    THEN [loop EXCEPT !.pc = "status"]
    ELSE AtRead(loop.offset)

RereadFails(loop, ok) ==
    ~ok \/ Unmarshal(loop.value).TaskID \notin DOMAIN tasks

\* Lines 187-207 of the video goroutine: ReadMessage, Unmarshal and
\* UpdateTaskVideoCopyright with the whole message value.  An error of
\* ReadMessage is logged and the loop calls ReadMessage again; a payload that
\* does not decode, and a failed update, are logged and the loop continues
\* with the next message.
VideoWrite ==
    /\ ~exited
    /\ videoLoop.pc = "read"
    /\ \/ /\ logged' = TRUE
          /\ UNCHANGED <<tasks, videoLoop>>
       \/ /\ videoLoop.offset < Len(videoCopyrightTopic)
          /\ \E ok \in BOOLEAN :
                 LET value == videoCopyrightTopic[videoLoop.offset + 1]
                     done == ok /\ ~UnmarshalErr(value)
                 IN
                 /\ tasks' = IF done
                             THEN UpdateTaskVideoCopyright(tasks,
                                      Unmarshal(value).TaskID, value)
                             ELSE tasks
                 /\ videoLoop' = IF done
                                 THEN AtReread(videoLoop.offset + 1, value)
                                 ELSE AtRead(videoLoop.offset + 1)
                 /\ logged' = (logged \/ ~done)
    /\ UNCHANGED <<apiVars, queryVars, fusionVars, origvideo, kafkaVars, calls, failedCalls, exited, audioLoop>>

\* Lines 162-169: the GetTask of checkTaskDone and its check.
VideoReread ==
    /\ ~exited
    /\ videoLoop.pc = "reread"
    /\ \E ok \in BOOLEAN :
           /\ videoLoop' = LoopReread(videoLoop, ok)
           /\ logged' = (logged \/ RereadFails(videoLoop, ok))
    /\ UNCHANGED <<apiVars, queryVars, fusionVars, storeVars, kafkaVars, calls, failedCalls, exited, audioLoop>>

\* Lines 171-179: UpdateTaskStatus(done).
VideoStatus ==
    /\ ~exited
    /\ videoLoop.pc = "status"
    /\ \E ok \in BOOLEAN :
           /\ tasks' = IF ok
                       THEN UpdateTaskStatus(tasks,
                                Unmarshal(videoLoop.value).TaskID, TaskStatusDone)
                       ELSE tasks
           /\ logged' = (logged \/ ~ok)
    /\ videoLoop' = AtRead(videoLoop.offset)
    /\ UNCHANGED <<apiVars, queryVars, fusionVars, origvideo, kafkaVars, calls, failedCalls, exited, audioLoop>>

\* Lines 218-238 of the audio goroutine: ReadMessage, Unmarshal and
\* UpdateTaskAudioCopyright with the whole message value.
AudioWrite ==
    /\ ~exited
    /\ audioLoop.pc = "read"
    /\ \/ /\ logged' = TRUE
          /\ UNCHANGED <<tasks, audioLoop>>
       \/ /\ audioLoop.offset < Len(audioCopyrightTopic)
          /\ \E ok \in BOOLEAN :
                 LET value == audioCopyrightTopic[audioLoop.offset + 1]
                     done == ok /\ ~UnmarshalErr(value)
                 IN
                 /\ tasks' = IF done
                             THEN UpdateTaskAudioCopyright(tasks,
                                      Unmarshal(value).TaskID, value)
                             ELSE tasks
                 /\ audioLoop' = IF done
                                 THEN AtReread(audioLoop.offset + 1, value)
                                 ELSE AtRead(audioLoop.offset + 1)
                 /\ logged' = (logged \/ ~done)
    /\ UNCHANGED <<apiVars, queryVars, fusionVars, origvideo, kafkaVars, calls, failedCalls, exited, videoLoop>>

\* Lines 162-169, called from the audio goroutine.
AudioReread ==
    /\ ~exited
    /\ audioLoop.pc = "reread"
    /\ \E ok \in BOOLEAN :
           /\ audioLoop' = LoopReread(audioLoop, ok)
           /\ logged' = (logged \/ RereadFails(audioLoop, ok))
    /\ UNCHANGED <<apiVars, queryVars, fusionVars, storeVars, kafkaVars, calls, failedCalls, exited, videoLoop>>

\* Lines 171-179, called from the audio goroutine.
AudioStatus ==
    /\ ~exited
    /\ audioLoop.pc = "status"
    /\ \E ok \in BOOLEAN :
           /\ tasks' = IF ok
                       THEN UpdateTaskStatus(tasks,
                                Unmarshal(audioLoop.value).TaskID, TaskStatusDone)
                       ELSE tasks
           /\ logged' = (logged \/ ~ok)
    /\ audioLoop' = AtRead(audioLoop.offset)
    /\ UNCHANGED <<apiVars, queryVars, fusionVars, origvideo, kafkaVars, calls, failedCalls, exited, videoLoop>>

\* --------------------------------------------------------------- startup

\* pgxpool.New in taskcontroller.New: on an error New returns it, the API's
\* New returns it, and main logs it and returns.
NewPgxpool ==
    /\ Booting("pgxpool")
    /\ \E ok \in BOOLEAN :
           /\ boot' = IF ok THEN BootDone ELSE [boot EXCEPT !.failed = TRUE]
           /\ logged' = (logged \/ ~ok)
    /\ UNCHANGED <<runs, queryVars, fusionVars, storeVars, kafkaVars, calls,
                   failedCalls, videoLoop, audioLoop, exited>>

\* minio.NewMinioClient in taskcontroller.New, with the same error path.
NewMinioClient ==
    /\ Booting("minio")
    /\ \E ok \in BOOLEAN :
           /\ boot' = IF ok THEN BootDone ELSE [boot EXCEPT !.failed = TRUE]
           /\ logged' = (logged \/ ~ok)
    /\ UNCHANGED <<runs, queryVars, fusionVars, storeVars, kafkaVars, calls,
                   failedCalls, videoLoop, audioLoop, exited>>

\* createTopics: its errors are logged and New goes on.
createTopics ==
    /\ Booting("createTopics")
    /\ boot' = [BootDone EXCEPT !.topics = TRUE]
    /\ \E ok \in BOOLEAN : logged' = (logged \/ ~ok)
    /\ UNCHANGED <<runs, queryVars, fusionVars, storeVars, kafkaVars, calls,
                   failedCalls, videoLoop, audioLoop, exited>>

\* handleKafkaInput: the two collector goroutines are started.
handleKafkaInput ==
    /\ Booting("handleKafkaInput")
    /\ boot' = BootDone
    /\ videoLoop' = AtRead(0)
    /\ audioLoop' = AtRead(0)
    /\ UNCHANGED <<runs, queryVars, fusionVars, storeVars, kafkaVars, calls,
                   failedCalls, logged, exited>>

\* a.Start in its goroutine: the router serves, or Run returns an error
\* that is logged.
Start ==
    /\ Booting("Start")
    /\ \E ok \in BOOLEAN :
           /\ boot' = [BootDone EXCEPT !.server = ok]
           /\ logged' = (logged \/ ~ok)
    /\ UNCHANGED <<runs, queryVars, fusionVars, storeVars, kafkaVars, calls,
                   failedCalls, videoLoop, audioLoop, exited>>

\* ----------------------------------------------------------- specifications

\* No call of isCopyrighted is in progress.
FusionOff ==
    /\ videoCopyright = <<>>
    /\ audioCopyright = <<>>
    /\ ipc = "off"
    /\ videoMap = <<>>
    /\ audioMap = <<>>
    /\ ret = NoReturn

\* -------------------------------------------------------- GetTask, GetTasks

\* No call on the read side has been made.
NoQuery == [op |-> "none"]

\* The uint64 arguments.
Uint64 == 0..(2^(Int32Width + 1) - 1)

\* The conversion int32(x) of a uint64: the low bits, in two's complement.
int32(x) ==
    LET low == x % (2^Int32Width)
    IN  IF low >= 2^(Int32Width - 1) THEN low - 2^Int32Width ELSE low

\* Mutant of GetTasksRows: the LIMIT is dropped.
GetTasksRows_NoLimit(t, lim, off) ==
    [i \in 1..(IF off < Len(t) THEN Len(t) - off ELSE 0) |-> off + i]

\* -- name: GetTasks :many
\* The ids of the rows from offset off on, lim of them at most, in ascending
\* task_id order.
GetTasksRows(t, lim, off) ==
    LET rest == IF off < Len(t) THEN Len(t) - off ELSE 0
    IN  [i \in 1..(IF lim < rest THEN lim ELSE rest) |-> off + i]

\* -- name: GetTasksCount :one
GetTasksCount(t) == Len(t)

\* taskSliceToModel
taskSliceToModel(ids) == [i \in DOMAIN ids |-> taskToModel(ids[i], tasks[ids[i]])]

\* model.Task{}
ZeroTask ==
    [TaskID |-> 0, Status |-> "Done", VideoCopyright |-> <<>>, AudioCopyright |-> <<>>]

\* Mutant of GetTaskCall: the read marks the row as done.
GetTaskCall_Touch ==
    /\ query = NoQuery
    /\ \E id \in DOMAIN tasks :
           /\ query' = [op |-> "GetTask", id |-> id,
                        ret |-> [err |-> FALSE, task |-> GetTask(id)]]
           /\ tasks' = UpdateTaskStatus(tasks, id, TaskStatusDone)
    /\ UNCHANGED <<apiVars, fusionVars, origvideo, kafkaVars, ctlVars>>

\* TaskController.GetTask: the row by id, converted; the store's error (no
\* row with that id among them) is returned with the zero Task.
GetTaskCall ==
    /\ query = NoQuery
    /\ \E id \in 0..(MaxRows + 1), ok \in BOOLEAN :
           query' = [op |-> "GetTask", id |-> id,
                     ret |-> IF ok /\ id \in DOMAIN tasks
                             THEN [err |-> FALSE, task |-> GetTask(id)]
                             ELSE [err |-> TRUE, task |-> ZeroTask]]
    /\ UNCHANGED <<apiVars, fusionVars, storeVars, kafkaVars, ctlVars>>

\* pgsql.GetTasksParams as GetTasks fills it: the arguments handed to the
\* store.
GetTasksParams(limit, offset) ==
    [Limit |-> int32(limit), Offset |-> int32(offset)]

\* (nil, 0, err)
GetTasksErr == [err |-> TRUE, tasks |-> <<>>, total |-> 0]

\* TaskController.GetTasks, lines 431-445: limit and offset are converted to
\* int32, the page is selected and converted.  Postgres rejects a negative
\* LIMIT or OFFSET; an error of the store returns (nil, 0, err).  The call
\* keeps the page and goes on to the count, a statement of its own on the
\* pool; seen is the number of rows the table had when the page was read.
GetTasksCall ==
    /\ query = NoQuery
    /\ \E limit \in Uint64, offset \in Uint64, ok \in BOOLEAN :
           LET arg == GetTasksParams(limit, offset)
               selected == ok /\ arg.Limit >= 0 /\ arg.Offset >= 0
           IN  query' = [op |-> "GetTasks", limit |-> limit, offset |-> offset,
                         arg |-> arg,
                         pc |-> IF selected THEN "count" ELSE "done",
                         seen |-> Len(tasks),
                         ret |-> IF selected
                                 THEN [err |-> FALSE,
                                       tasks |-> taskSliceToModel(
                                                     GetTasksRows(tasks, arg.Limit,
                                                                  arg.Offset)),
                                       total |-> 0]
                                 ELSE GetTasksErr]
    /\ UNCHANGED <<apiVars, fusionVars, storeVars, kafkaVars, ctlVars>>

\* TaskController.GetTasks, lines 447-454: the rows are counted and the page
\* is returned with the count; an error of the count returns (nil, 0, err).
GetTasksTotal ==
    /\ query.op = "GetTasks"
    /\ query.pc = "count"
    /\ \E ok \in BOOLEAN :
           query' = [query EXCEPT
                         !.pc = "done",
                         !.ret = IF ok
                                 THEN [@ EXCEPT !.total = GetTasksCount(tasks)]
                                 ELSE GetTasksErr]
    /\ UNCHANGED <<apiVars, fusionVars, storeVars, kafkaVars, ctlVars>>

\* A GetTasks call has returned.
GetTasksReturned == query.op = "GetTasks" /\ query.pc = "done"

\* ------------------------------------------------------------- runCopyright

\* What a runCopyright call has returned once CreateTask gave it an id:
\* ("", false, err) of a failed GetTask, or the verdict (id, copyrighted, nil)
\* with the notification calls it made before returning.
RunErr == [kind |-> "err"]

RunVerdict(r, posts) ==
    [kind |-> "verdict", id |-> r[1], copyrighted |-> r[2], posts |-> posts]

\* The call has ended without returning: isCopyrighted panicked in it.
RunPanic == [kind |-> "panic"]

\* UploadToDatabaseAudio: the request it posts, with the URL of the task's
\* audio file in the audio bucket.
UploadToDatabaseAudio(id) ==
    [to |-> "Wav2VecAddr/update_database", link |-> "audioUrl", name |-> id]

\* UploadToDatabaseVideo: the request it posts; the URL is that of
\* task.AudioFile in the audio bucket here too.
UploadToDatabaseVideo(id) ==
    [to |-> "VideocopyAddr/upload_video", link |-> "audioUrl", name |-> id]

\* Mutant of Posts: the two notification calls are made whatever the
\* verdict is.
Posts_Always(id, copyrighted, audioErr, videoErr) ==
    <<[call |-> "UploadToDatabaseAudio", req |-> UploadToDatabaseAudio(id),
       err |-> audioErr],
      [call |-> "UploadToDatabaseVideo", req |-> UploadToDatabaseVideo(id),
       err |-> videoErr]>>

\* Lines 281-292: the notification calls runCopyright makes after the
\* verdict, in order, each with the request it builds and whether it
\* returned an error: none for a duplicate, otherwise UploadToDatabaseAudio
\* and then UploadToDatabaseVideo, the second whatever the first returned.
Posts(id, copyrighted, audioErr, videoErr) ==
    IF copyrighted
    THEN <<>>
    ELSE <<[call |-> "UploadToDatabaseAudio", req |-> UploadToDatabaseAudio(id),
            err |-> audioErr],
           [call |-> "UploadToDatabaseVideo", req |-> UploadToDatabaseVideo(id),
            err |-> videoErr]>>

\* m.Status == model.TaskStatusDone
StatusIsDone(m) == m.Status = "Done"

\* One iteration of the polling loop of runCopyright for the task of call c,
\* lines 272-294: ctl.GetTask, whose error is returned; a task not read as
\* done leaves the loop where it is; on a task read as done isCopyrighted
\* gives the verdict, and a verdict of no duplicate is followed by the two
\* notification calls, whose errors are only logged.
RunCopyrightPoll(c) ==
    /\ ~exited
    /\ calls[c].ret = ReturnID(c)
    /\ c \notin DOMAIN runs
    /\ \E ok \in BOOLEAN :
           IF ~ok
           THEN runs' = (c :> RunErr) @@ runs /\ logged' = logged
           ELSE IF ~StatusIsDone(GetTask(c))
           THEN runs' = runs /\ logged' = logged
           ELSE \E r \in isCopyrightedResults(GetTask(c).VideoCopyright,
                                              GetTask(c).AudioCopyright) :
                    IF r = NoReturn
                    THEN runs' = (c :> RunPanic) @@ runs /\ logged' = logged
                    ELSE \E audioErr, videoErr \in BOOLEAN :
                             LET posts == Posts(GetTask(c).TaskID, r[2],
                                                audioErr, videoErr)
                             IN  /\ runs' = (c :> RunVerdict(r, posts)) @@ runs
                                 /\ logged' =
                                        (logged \/ \E i \in DOMAIN posts :
                                                      posts[i].err)
    /\ UNCHANGED <<boot, queryVars, fusionVars, storeVars, kafkaVars, calls,
                   failedCalls, videoLoop, audioLoop, exited>>

\* The controller as New leaves it: an empty task table, the reference
\* index with one video, empty topics, both collector goroutines started.
ControllerInit ==
    /\ tasks = <<>>
    /\ origvideo = {[video_id |-> "A", video_hash |-> HashSeen]}
    /\ audioInput = <<>>
    /\ videoInput = <<>>
    /\ videoCopyrightTopic = <<>>
    /\ audioCopyrightTopic = <<>>
    /\ calls = <<>>
    /\ failedCalls = 0
    /\ videoLoop = AtRead(0)
    /\ audioLoop = AtRead(0)
    /\ logged = FALSE
    /\ exited = FALSE
    /\ query = NoQuery
    /\ runs = <<>>
    /\ boot = Serving

Init == FusionOff /\ ControllerInit

Next ==
    \/ CreateTaskInsert
    \/ \E c \in DOMAIN calls : CreateTaskWriteVideo(c)
    \/ \E c \in DOMAIN calls : CreateTaskWriteAudio(c)
    \/ \E c \in DOMAIN calls : DispatchStatus(c)
    \/ \E c \in DOMAIN calls : DispatchAudio(c)
    \/ \E c \in DOMAIN calls : DispatchVideo(c)
    \/ PublishVideoResult
    \/ PublishAudioResult
    \/ VideoWrite
    \/ VideoReread
    \/ VideoStatus
    \/ AudioWrite
    \/ AudioReread
    \/ AudioStatus

\* The controller with its store, its topics and the workers.
Spec == Init /\ [][Next]_vars

\* A goroutine of checkForCopyright that can run its next statement is
\* scheduled: the Go runtime does not starve a runnable goroutine.
DispatchFairness ==
    \A c \in 1..MaxCalls :
        /\ WF_vars(c \in DOMAIN calls /\ DispatchStatus(c))
        /\ WF_vars(c \in DOMAIN calls /\ DispatchAudio(c))
        /\ WF_vars(c \in DOMAIN calls /\ DispatchVideo(c))

\* The same behaviours, with the dispatch goroutines scheduled fairly.
SpecLive == Spec /\ DispatchFairness

\* A collector goroutine that can run its next statement is scheduled.
LoopFairness ==
    /\ WF_vars(VideoWrite) /\ WF_vars(VideoReread) /\ WF_vars(VideoStatus)
    /\ WF_vars(AudioWrite) /\ WF_vars(AudioReread) /\ WF_vars(AudioStatus)

\* The same behaviours, with the two collector goroutines scheduled fairly.
SpecCollect == Spec /\ LoopFairness

RunNext ==
    \/ Next
    \/ \E c \in DOMAIN calls : RunCopyrightPoll(c)

\* A runCopyright call that is polling wakes from its Sleep and polls again.
PollFairness ==
    \A c \in 1..MaxCalls : WF_vars(c \in DOMAIN calls /\ RunCopyrightPoll(c))

\* The controller with the API's runCopyright calls polling its tasks.
SpecRun == Init /\ [][RunNext]_vars /\ PollFairness

\* The process as main begins: nothing constructed, no goroutine started.
NewInit ==
    /\ FusionOff
    /\ tasks = <<>>
    /\ origvideo = {[video_id |-> "A", video_hash |-> HashSeen]}
    /\ audioInput = <<>>
    /\ videoInput = <<>>
    /\ videoCopyrightTopic = <<>>
    /\ audioCopyrightTopic = <<>>
    /\ calls = <<>>
    /\ failedCalls = 0
    /\ videoLoop = NotStarted
    /\ audioLoop = NotStarted
    /\ logged = FALSE
    /\ exited = FALSE
    /\ query = NoQuery
    /\ runs = <<>>
    /\ boot = Started

NewNext ==
    \/ NewPgxpool
    \/ NewMinioClient
    \/ createTopics
    \/ handleKafkaInput
    \/ Start
    \/ Next

\* The process from the start of main on.
SpecNew == NewInit /\ [][NewNext]_vars

FusionInit ==
    /\ videoCopyright \in CandidateSeqs
    /\ audioCopyright \in CandidateSeqs
    /\ ipc = "entry"
    /\ videoMap = <<>>
    /\ audioMap = <<>>
    /\ ret = NoReturn
    /\ ControllerInit

FusionNext ==
    \/ isCopyrightedEntry
    \/ isCopyrightedFuse
    \/ isCopyrightedSelect

\* One call of isCopyrighted on every pair of candidate sequences.
SpecFusion == FusionInit /\ [][FusionNext]_vars

\* The rows the controller leaves in the task table: inserted on the slow
\* path, with one result stored, completed by the loops, and written by the
\* fast path.
StoredRows ==
    LET result == MarshalResponse(1, <<[Name |-> "A", Probability |-> 8]>>)
        fresh == InsertTask(<<>>, TaskStatusInProgress)
        fast == InsertTask(<<>>, TaskStatusDone)
    IN  {fresh[1],
         UpdateTaskVideoCopyright(fresh, 1, result)[1],
         UpdateTaskStatus(
             UpdateTaskAudioCopyright(
                 UpdateTaskVideoCopyright(fresh, 1, result), 1, result),
             1, TaskStatusDone)[1],
         UpdateTaskAudioCopyright(
             UpdateTaskVideoCopyright(fast, 1, MarshalCopyright("A")),
             1, MarshalCopyright("A"))[1]}

\* A controller started on a task table that holds up to MaxRows rows.
QueryInit ==
    /\ FusionOff
    /\ tasks \in UNION {[1..n -> StoredRows] : n \in 0..MaxRows}
    /\ origvideo = {[video_id |-> "A", video_hash |-> HashSeen]}
    /\ audioInput = <<>>
    /\ videoInput = <<>>
    /\ videoCopyrightTopic = <<>>
    /\ audioCopyrightTopic = <<>>
    /\ calls = <<>>
    /\ failedCalls = 0
    /\ videoLoop = AtRead(0)
    /\ audioLoop = AtRead(0)
    /\ logged = FALSE
    /\ exited = FALSE
    /\ query = NoQuery
    /\ runs = <<>>
    /\ boot = Serving

QueryNext ==
    \/ GetTaskCall
    \/ GetTasksCall
    \/ GetTasksTotal

\* One GetTask or GetTasks call on every such table.
SpecQuery == QueryInit /\ [][QueryNext]_vars

\* ------------------------------------------------- claims on isCopyrighted

\* The call has ended: it returned, or it panicked.
Ended == ipc \in {"ret299", "ret322", "ret346", "ret349", "panic"}

NamesOf(s) == {s[i].Name : i \in DOMAIN s}

\* The names both modalities list.
Corroborated == NamesOf(videoCopyright) \cap NamesOf(audioCopyright)

\* 2*pv*pa/(pv+pa) of a corroborated name.
FusedOf(n) == HarmonicMean(ToMap(videoCopyright)[n], ToMap(audioCopyright)[n])

\* x >= 0.75 and x = 0.75 on the exact fractions; no comparison holds of 0/0.
AtLeastThreshold(x) == ~IsNaN(x) /\ 4 * x.num >= 3 * x.den

AtThreshold(x) == ~IsNaN(x) /\ 4 * x.num = 3 * x.den

\* The corroborated names whose fused score is at least 0.75.
Survivors == {n \in Corroborated : AtLeastThreshold(FusedOf(n))}

\* C6: on non-empty video and audio candidates isCopyrighted returns
\* normally (it does not panic), it returns isDuplicate = true exactly when
\* some name occurs in both sequences with fused score >= 0.75, and the name
\* it returns with true is such a name.
C6_FusionExact ==
    (Len(videoCopyright) # 0 /\ Len(audioCopyright) # 0 /\ Ended) =>
        /\ ipc # "panic"
        /\ ret[2] <=> (Survivors # {})
        /\ ret[2] => ret[1] \in Survivors

\* C7: when more than one name survives the threshold, isCopyrighted
\* reports a survivor, and no survivor has a lower fused score than the
\* reported one.
C7_LowestSurvivor ==
    (Ended /\ Cardinality(Survivors) > 1) =>
        /\ ipc = "ret349"
        /\ ret[1] \in Survivors
        /\ \A n \in Survivors : ~Less(FusedOf(n), FusedOf(ret[1]))

\* C8: when a corroborated name has the fused score 0.75 exactly, the call
\* reports a duplicate, and it never reports a name whose fused score is
\* below 0.75.
C8_ThresholdBoundary ==
    Ended =>
        /\ (\E n \in Corroborated : AtThreshold(FusedOf(n))) =>
               (ipc = "ret349" /\ ret[2])
        /\ \A n \in Corroborated :
               Less(FusedOf(n), Threshold) => ~(ipc = "ret349" /\ ret[1] = n)

\* C9: when no name occurs in both the video and the audio candidates, the
\* call ends by returning ("", false), whatever the probabilities are.
C9_NoOverlap ==
    (Corroborated = {} /\ Ended) =>
        (ipc \in {"ret299", "ret322"} /\ ret = NotDuplicate)

\* Both inputs are non-empty, share no name, and the call has returned.
C9_Witness ==
    /\ Len(videoCopyright) # 0
    /\ Len(audioCopyright) # 0
    /\ Corroborated = {}
    /\ ipc = "ret322"
    /\ ret = NotDuplicate

\* C10: when the video or the audio candidate sequence is empty, the call
\* returns ("", false) in its first step, and neither map has been built.
C10_EmptyInput ==
    ((Len(videoCopyright) = 0 \/ Len(audioCopyright) = 0) /\ ipc # "entry") =>
        /\ ipc = "ret299"
        /\ ret = NotDuplicate
        /\ videoMap = <<>>
        /\ audioMap = <<>>

\* Exactly one side is empty and the call has returned.
C10_Witness ==
    /\ Len(videoCopyright) = 0
    /\ Len(audioCopyright) # 0
    /\ ipc = "ret299"
    /\ ret = NotDuplicate

\* ---------------------------------------------- claims on the controller

\* Call c took the fast path and has returned an id.
FastReturned(c) ==
    /\ calls[c].videos # <<>>
    /\ calls[c].ret.done
    /\ ~calls[c].ret.err

\* C1: after CreateTask on content whose hash is in the reference index has
\* returned an id, GetTask on that id yields status Done and, as video and
\* as audio candidates, exactly the one match of the first reference with
\* probability 1.0.
C1_FastPathReadBack ==
    \A c \in DOMAIN calls :
        FastReturned(c) =>
            LET match == <<[Name |-> calls[c].videos[1].video_id,
                            Probability |-> 8]>>
            IN  GetTask(calls[c].ret.id) =
                    [TaskID |-> calls[c].ret.id,
                     Status |-> "Done",
                     VideoCopyright |-> match,
                     AudioCopyright |-> match]

\* C2: in every reachable state of the store, a task whose status is done
\* has had both candidate columns written (no write ever stores NULL, so a
\* written column is one that is not NULL).
C2_DoneImpliesBothWritten ==
    \A t \in DOMAIN tasks :
        tasks[t].status = TaskStatusDone =>
            /\ tasks[t].video_copyright # NullJSON
            /\ tasks[t].audio_copyright # NullJSON

VideoResultsFor(t) ==
    {i \in DOMAIN videoCopyrightTopic : videoCopyrightTopic[i].task_id = t}

AudioResultsFor(t) ==
    {i \in DOMAIN audioCopyrightTopic : audioCopyrightTopic[i].task_id = t}

\* Nothing has failed, and both loops have applied all there is to consume.
Quiescent ==
    /\ ~logged
    /\ videoLoop = AtRead(Len(videoCopyrightTopic))
    /\ audioLoop = AtRead(Len(audioCopyrightTopic))

OneResultEach(t) ==
    /\ Cardinality(VideoResultsFor(t)) = 1
    /\ Cardinality(AudioResultsFor(t)) = 1

\* C3: whatever the interleaving of the two loops' steps was, once one
\* video result and one audio result of a task have been applied without a
\* failure, the task reads back as Done with the candidates of the video
\* result and the candidates of the audio result.
C3_OrderIndependence ==
    \A t \in DOMAIN tasks :
        (Quiescent /\ OneResultEach(t)) =>
            LET v == videoCopyrightTopic[CHOOSE i \in VideoResultsFor(t) : TRUE]
                a == audioCopyrightTopic[CHOOSE i \in AudioResultsFor(t) : TRUE]
            IN  GetTask(t) = [TaskID |-> t,
                              Status |-> "Done",
                              VideoCopyright |-> v.copyright,
                              AudioCopyright |-> a.copyright]

\* A task both of whose results, with candidates in the video one, have
\* been applied.
C3_Witness ==
    \E t \in DOMAIN tasks :
        /\ Quiescent
        /\ OneResultEach(t)
        /\ tasks[t].status = TaskStatusDone
        /\ GetTask(t).VideoCopyright # <<>>

\* The index of the message a loop is applying, or consumes next.
Current(loop) == IF loop.pc = "read" THEN loop.offset + 1 ELSE loop.offset

\* Message k of the topic is the message before it, delivered again.
Redelivered(topic, k) == k \in 2..Len(topic) /\ topic[k] = topic[k - 1]

\* The loop is in the middle of applying a result of task t.
Applying(loop, t) == loop.pc # "read" /\ Unmarshal(loop.value).TaskID = t

\* A step (candidate write, re-read or status write) of the video loop's
\* second application of a result, with the audio loop not in the middle
\* of applying a result of the same task.
VideoSecondApplication ==
    /\ videoLoop' # videoLoop
    /\ Redelivered(videoCopyrightTopic, Current(videoLoop))
    /\ ~Applying(audioLoop, videoCopyrightTopic[Current(videoLoop)].task_id)

AudioSecondApplication ==
    /\ audioLoop' # audioLoop
    /\ Redelivered(audioCopyrightTopic, Current(audioLoop))
    /\ ~Applying(videoLoop, audioCopyrightTopic[Current(audioLoop)].task_id)

\* C4: when a loop consumes the result it has just applied a second time,
\* and nothing fails, no step of the second application changes the task
\* table: candidates and status stay as the first application left them.
C4_Idempotence ==
    [][(/\ ~logged
        /\ ~logged'
        /\ VideoSecondApplication \/ AudioSecondApplication)
       => tasks' = tasks]_vars

\* The video loop is about to write the status in its second application of
\* a result with candidates, on a task the first round has completed.
C4_Witness ==
    /\ ~logged
    /\ videoLoop.pc = "status"
    /\ Redelivered(videoCopyrightTopic, videoLoop.offset)
    /\ videoLoop.value.copyright # <<>>
    /\ audioLoop.pc = "read"
    /\ tasks[videoLoop.value.task_id].status = TaskStatusDone

\* C5: the status of a task changes only from in_progress, and only to done
\* or fail: no step changes the status of a task that is done or fail.
C5_StatusTransitions ==
    [][\A t \in DOMAIN tasks :
           tasks'[t].status # tasks[t].status =>
               /\ tasks[t].status = TaskStatusInProgress
               /\ tasks'[t].status \in {TaskStatusDone, TaskStatusFail}]_vars

\* A task is done, its dispatch has finished, and a loop's completion check
\* is about to write its status once more.
C5_Witness ==
    \E t \in DOMAIN tasks :
        /\ tasks[t].status = TaskStatusDone
        /\ calls[t].go = "ok"
        /\ Applying(audioLoop, t)
        /\ audioLoop.pc = "status"

\* C11: every CreateTask call ends by returning a task id or an error,
\* whichever of its inline steps fails: no call ends the process in place of
\* returning, and what a call has returned is (id, nil) or (0, err).
C11_EveryCallReturns ==
    /\ ~exited
    /\ \A c \in DOMAIN calls :
           calls[c].ret \in {Pending, ReturnID(c), ReturnErr}

AudioRequestsFor(t) == {i \in DOMAIN audioInput : audioInput[i].task_id = t}

VideoRequestsFor(t) == {i \in DOMAIN videoInput : videoInput[i].task_id = t}

\* Call t has inserted row t on the slow path.
SlowInserted(t) == t \in DOMAIN calls /\ calls[t].videos = <<>>

\* The goroutine of call t has returned an error.
DispatchFailed(t) == t \in DOMAIN calls /\ calls[t].go = "failed"

\* Exactly one request of task t is on each input topic.
DispatchedOnce(t) ==
    /\ Cardinality(AudioRequestsFor(t)) = 1
    /\ Cardinality(VideoRequestsFor(t)) = 1

\* C12: a call on content whose hash is not in the index inserts the task
\* as in_progress and returns its id, no more than one request of the task
\* is ever on either input topic, and unless a dispatch step fails exactly
\* one request of the task is eventually on each input topic.
C12_SlowPathDispatch ==
    /\ [][\A t \in DOMAIN calls' \ DOMAIN calls :
              SlowInserted(t)' =>
                  /\ tasks'[t].status = TaskStatusInProgress
                  /\ calls'[t].ret = ReturnID(t)]_vars
    /\ [](\A t \in DOMAIN calls :
              /\ Cardinality(AudioRequestsFor(t)) <= 1
              /\ Cardinality(VideoRequestsFor(t)) <= 1)
    /\ \A t \in 1..MaxCalls :
           SlowInserted(t) ~> (DispatchFailed(t) \/ DispatchedOnce(t))

\* C13: a call that took the hash-hit path starts no dispatch, and no
\* request of its task is on either input topic, in any reachable state.
C13_FastPathPublishesNothing ==
    \A c \in DOMAIN calls :
        calls[c].videos # <<>> =>
            /\ calls[c].go = "none"
            /\ AudioRequestsFor(c) = {}
            /\ VideoRequestsFor(c) = {}

\* A fast-path call has returned its id while the requests of another task
\* are on both input topics.
C13_Witness ==
    \E c, d \in DOMAIN calls :
        /\ FastReturned(c)
        /\ DispatchedOnce(d)

\* C14: when the goroutine of checkForCopyright has failed at a step, the
\* caller of CreateTask holds the task id and no error, and the status of
\* the task is in_progress.
C14_DispatchFailure ==
    \A c \in DOMAIN calls :
        DispatchFailed(c) =>
            /\ calls[c].ret = ReturnID(c)
            /\ tasks[c].status = TaskStatusInProgress

\* The dispatch failed at the video publish, after the audio request went
\* out, and the audio worker's answer has been stored by the loop that
\* consumes the worker's topic.
C14_Witness ==
    \E c \in DOMAIN calls :
        /\ DispatchFailed(c)
        /\ calls[c].step = 3
        /\ \/ tasks[c].audio_copyright # NullJSON
           \/ tasks[c].video_copyright # NullJSON

\* Every result of task t on both topics has no candidates, and there is
\* one at least on each topic.
OnlyEmptyResults(t) ==
    /\ VideoResultsFor(t) # {}
    /\ AudioResultsFor(t) # {}
    /\ \A i \in VideoResultsFor(t) : videoCopyrightTopic[i].copyright = <<>>
    /\ \A i \in AudioResultsFor(t) : audioCopyrightTopic[i].copyright = <<>>

\* C15: once a task's video results and audio results, all of them without
\* candidates, have been applied without a failure, the task is done (not
\* fail, not in_progress) and reads back with two empty candidate lists.
C15_EmptyCountsAsPopulated ==
    \A t \in DOMAIN tasks :
        (Quiescent /\ OnlyEmptyResults(t)) =>
            /\ tasks[t].status = TaskStatusDone
            /\ GetTask(t).VideoCopyright = <<>>
            /\ GetTask(t).AudioCopyright = <<>>

C15_Witness ==
    \E t \in DOMAIN tasks :
        /\ Quiescent
        /\ OnlyEmptyResults(t)
        /\ GetTask(t).Status = "Done"

\* C16: a step that sets the status of a task to fail is not a step of a
\* collector loop; it is a step of a CreateTask call or of its dispatch.
C16_LoopsNeverFail ==
    [][\A t \in DOMAIN tasks :
           (tasks'[t].status = TaskStatusFail /\ tasks[t].status # TaskStatusFail) =>
               /\ videoLoop' = videoLoop
               /\ audioLoop' = audioLoop
               /\ calls' # calls]_vars

\* A collector loop has completed a task from one result with candidates
\* and one without.
C16_Witness ==
    \E t \in DOMAIN tasks :
        /\ SlowInserted(t)
        /\ tasks[t].status = TaskStatusDone
        /\ GetTask(t).VideoCopyright # <<>>
        /\ GetTask(t).AudioCopyright = <<>>

\* C17: for every limit and offset, GetTasks returns at most limit tasks,
\* and when it returns no error the total it reports is the number of rows
\* of the task table.
C17_Pagination ==
    GetTasksReturned =>
        /\ Len(query.ret.tasks) <= query.limit
        /\ ~query.ret.err => query.ret.total = Len(tasks)

\* A page shorter than the table, cut by a limit that int32 changes.
C17_Witness ==
    /\ GetTasksReturned
    /\ ~query.ret.err
    /\ query.limit > 2^Int32Width
    /\ Len(query.ret.tasks) > 0
    /\ Len(query.ret.tasks) < Len(tasks)

\* C18: a GetTask or GetTasks call changes no task, nor the reference
\* index, nor any topic.
C18_ReadOnly ==
    [][query' # query =>
           UNCHANGED <<tasks, origvideo, audioInput, videoInput,
                       videoCopyrightTopic, audioCopyrightTopic>>]_vars

\* A GetTask call has returned a task of a table with rows in progress.
C18_Witness ==
    /\ query.op = "GetTask"
    /\ ~query.ret.err
    /\ query.ret.task.Status = "InProgress"
    /\ Len(tasks) > 1

\* C19: a step inserts at most one row and removes none; the step that
\* inserts a row is the step of one CreateTask call, every row is the row
\* of one call, and the calls that returned an id returned the ids of
\* different rows.
C19_RowsOnlyGrow ==
    [][/\ Len(tasks') \in {Len(tasks), Len(tasks) + 1}
       /\ Len(tasks') = Len(tasks) + 1 <=> Len(calls') = Len(calls) + 1
       /\ Len(tasks') = Len(calls')
       /\ \A c, d \in DOMAIN calls' :
              (/\ calls'[c].ret.done
               /\ ~calls'[c].ret.err
               /\ calls'[d].ret.done
               /\ ~calls'[d].ret.err
               /\ c # d) =>
                  /\ calls'[c].ret.id \in DOMAIN tasks'
                  /\ calls'[c].ret.id # calls'[d].ret.id]_vars

\* Two calls have returned the ids of their rows, one of each path.
C19_Witness ==
    /\ Len(tasks) = 2
    /\ \A c \in DOMAIN calls : calls[c].ret = ReturnID(c)
    /\ \E c, d \in DOMAIN calls : FastReturned(c) /\ SlowInserted(d)

\* C20: no step changes the verdict isCopyrighted computes from the stored
\* candidates of a task that is done.
C20_VerdictStable ==
    [][\A t \in DOMAIN tasks :
           tasks[t].status = TaskStatusDone =>
               Verdict(tasks'[t]) = Verdict(tasks[t])]_vars

\* ------------------------------------------------------------------- C21

\* C21: a loop's candidate write and its completion check (the re-read and
\* the status write) run atomically with respect to the other loop: while a
\* loop is between its write for task t and the end of its check, no step of
\* the other loop changes the row of t, so the check sees the row its own
\* write produced.
C21_CheckAtomic ==
    [][\A t \in DOMAIN tasks :
           /\ (Applying(videoLoop, t) /\ audioLoop' # audioLoop)
                  => tasks'[t] = tasks[t]
           /\ (Applying(audioLoop, t) /\ videoLoop' # videoLoop)
                  => tasks'[t] = tasks[t]]_vars

\* ------------------------------------------------------------------- C22

\* The loop has consumed a message of task t from its topic.
Consumed(topic, loop, t) ==
    \E i \in 1..loop.offset : Unmarshal(topic[i]).TaskID = t

\* C22: when a video result and an audio result of the same task have both
\* been consumed and no store operation fails (nothing is logged), the task
\* eventually has the status done, with the two loops scheduled fairly.
C22_CompletionLiveness ==
    \A t \in 1..MaxCalls :
        (/\ Consumed(videoCopyrightTopic, videoLoop, t)
         /\ Consumed(audioCopyrightTopic, audioLoop, t))
            ~> (logged \/ (t \in DOMAIN tasks /\ tasks[t].status = TaskStatusDone))

\* ------------------------------------------------------------------- C23

\* C23: under the default configuration the loop that writes the video
\* candidates consumes the topic the video worker publishes to, and the loop
\* that writes the audio candidates the topic of the audio worker: a message
\* is appended to the log of videoReader only by the video worker, and to
\* the log of audioReader only by the audio worker.
C23_DefaultWiring ==
    [][/\ videoCopyrightTopic' # videoCopyrightTopic => PublishVideoResult
       /\ audioCopyrightTopic' # audioCopyrightTopic => PublishAudioResult]_vars

\* ------------------------------------------------------------------- C24

\* The step is the candidate write of the loop: it leaves ReadMessage.
WriteStep(loop, loopNext) == loop.pc = "read" /\ loopNext # loop

\* The rows other than that of the message's task are as they were.
OtherRowsKept(value) ==
    /\ DOMAIN tasks' = DOMAIN tasks
    /\ \A u \in DOMAIN tasks :
           u # Unmarshal(value).TaskID => tasks'[u] = tasks[u]

\* C24: the candidate write of the video loop for a task changes the video
\* candidates of that task only: its audio candidates, its status and every
\* other row stay as they were; the same for the audio loop with the audio
\* candidates; and a loop changes a status only in its completion check.
C24_ModalityScoped ==
    [][/\ WriteStep(videoLoop, videoLoop') =>
              /\ OtherRowsKept(videoCopyrightTopic[videoLoop.offset + 1])
              /\ \A u \in DOMAIN tasks :
                     /\ tasks'[u].audio_copyright = tasks[u].audio_copyright
                     /\ tasks'[u].status = tasks[u].status
       /\ WriteStep(audioLoop, audioLoop') =>
              /\ OtherRowsKept(audioCopyrightTopic[audioLoop.offset + 1])
              /\ \A u \in DOMAIN tasks :
                     /\ tasks'[u].video_copyright = tasks[u].video_copyright
                     /\ tasks'[u].status = tasks[u].status
       /\ \A u \in DOMAIN tasks :
              (/\ videoLoop' # videoLoop \/ audioLoop' # audioLoop
               /\ tasks'[u].status # tasks[u].status)
                  => \/ videoLoop' # videoLoop /\ videoLoop.pc = "status"
                     \/ audioLoop' # audioLoop /\ audioLoop.pc = "status"]_vars

\* The video loop has written the candidates of a task whose audio column
\* is set, while another task has its video column set.
C24_Witness ==
    \E t, u \in DOMAIN tasks :
        /\ t # u
        /\ videoLoop.pc = "reread"
        /\ Unmarshal(videoLoop.value).TaskID = t
        /\ tasks[t].video_copyright = videoLoop.value
        /\ tasks[t].audio_copyright # NullJSON
        /\ tasks[u].video_copyright # NullJSON
        /\ tasks[u].video_copyright # videoLoop.value

\* ------------------------------------------------------------------- C25

\* The loop consumes, in this step, a payload that cannot be decoded.
ConsumesMalformed(loop, loopNext, topic) ==
    /\ WriteStep(loop, loopNext)
    /\ topic[loop.offset + 1] = Malformed

\* C25: a result message that does not decode is dropped: the step that
\* consumes it writes nothing to the store and runs no completion check,
\* every task is as it was, and the loop is back in ReadMessage for the
\* next message.
C25_MalformedDropped ==
    [][/\ ConsumesMalformed(videoLoop, videoLoop', videoCopyrightTopic) =>
              /\ storeVars' = storeVars
              /\ videoLoop' = AtRead(videoLoop.offset + 1)
       /\ ConsumesMalformed(audioLoop, audioLoop', audioCopyrightTopic) =>
              /\ storeVars' = storeVars
              /\ audioLoop' = AtRead(audioLoop.offset + 1)]_vars

\* The video loop has consumed a malformed payload while a task is in
\* progress, and is in ReadMessage again.
C25_Witness ==
    /\ videoLoop.pc = "read"
    /\ videoLoop.offset >= 1
    /\ videoCopyrightTopic[videoLoop.offset] = Malformed
    /\ \E t \in DOMAIN tasks : tasks[t].status = TaskStatusInProgress

\* ------------------------------------------------------------------- C26

\* C26: once started, neither collector loop ever ends: whatever has failed
\* before, in either loop, the loop is back in ReadMessage and receives the
\* next message of its topic, so every message on the topic of a loop is
\* eventually consumed by it.
C26_LoopsNeverEnd ==
    \A k \in 1..MaxResults :
        /\ (Len(videoCopyrightTopic) >= k) ~> (videoLoop.offset >= k)
        /\ (Len(audioCopyrightTopic) >= k) ~> (audioLoop.offset >= k)

\* ------------------------------------------------------------------- C28

\* The reference index has a row with that hash.
Indexed(h) == \E r \in origvideo : r.video_hash = h

\* C28: no step of the core (a CreateTask call on either path, its dispatch,
\* a collector loop, a poll of runCopyright with its GetTask and its
\* notification calls) adds to or changes the reference index; and every
\* call that submitted bytes whose hash the index does not hold has taken
\* the slow path, however often the same bytes were submitted before.
C28_IndexReadOnly ==
    [][/\ origvideo' = origvideo
       /\ \A c \in DOMAIN calls' :
              ~Indexed(calls'[c].hash) => calls'[c].videos = <<>>]_vars

\* The same unindexed bytes were submitted twice, the first task has been
\* completed by the loops and its runCopyright call has made both
\* notification calls without an error, and the second submission took the
\* slow path as well.
C28_Witness ==
    /\ Len(calls) = 2
    /\ calls[1].hash = calls[2].hash
    /\ ~Indexed(calls[1].hash)
    /\ 1 \in DOMAIN runs
    /\ runs[1].kind = "verdict"
    /\ Len(runs[1].posts) = 2
    /\ \A i \in DOMAIN runs[1].posts : ~runs[1].posts[i].err
    /\ calls[2].videos = <<>>
    /\ tasks[2].status = TaskStatusInProgress

\* ------------------------------------------------------------------- C29

\* C29: when pgxpool.New or minio.NewMinioClient has failed and New has
\* returned the error, neither collector goroutine has been started, the
\* topics have not been provisioned, the HTTP server is not started, and
\* nothing has been submitted or stored.
C29_ConstructorFailure ==
    boot.failed =>
        /\ videoLoop = NotStarted
        /\ audioLoop = NotStarted
        /\ ~boot.topics
        /\ ~boot.server
        /\ tasks = <<>>
        /\ calls = <<>>

\* The storage client could not be constructed, after the pool was.
C29_Witness ==
    /\ boot.failed
    /\ BootOrder[boot.step] = "minio"

\* ------------------------------------------------------------------- C30

\* CreateTask has given the runCopyright call of c its id, and the call is
\* in its polling loop.
Polling(c) ==
    /\ c \in DOMAIN calls
    /\ calls[c].ret = ReturnID(c)
    /\ c \notin DOMAIN runs

\* The runCopyright call of c has returned, a verdict or an error.
Returned(c) == c \in DOMAIN runs /\ runs[c] # RunPanic

\* C30: a runCopyright call returns a verdict only for a task a GetTask has
\* read as done, and otherwise returns only the error of a GetTask; and it
\* does return once the task is done: a call that is polling a done task
\* eventually returns.
C30_PollUntilDone ==
    /\ [](\A c \in DOMAIN runs :
              \/ runs[c] = RunErr
              \/ runs[c].kind = "verdict" /\ tasks[c].status = TaskStatusDone)
    /\ \A c \in 1..MaxCalls :
           (Polling(c) /\ tasks[c].status = TaskStatusDone) ~> Returned(c)

\* ------------------------------------------------------------------- C31

\* The notification calls of that name among those a call has made.
CallsOf(posts, name) == {i \in DOMAIN posts : posts[i].call = name}

\* C31: a runCopyright call makes notification calls only when it returns
\* the verdict of no duplicate for a task that is done, and then exactly one
\* of each modality; the verdict it returns is the one isCopyrighted gives
\* on the stored candidates whether or not a notification failed, and the
\* step leaves every task as it was.
C31_Notifications ==
    [][\A c \in DOMAIN runs' \ DOMAIN runs :
           /\ tasks' = tasks
           /\ runs'[c].kind = "verdict" =>
                  /\ tasks[c].status = TaskStatusDone
                  /\ <<runs'[c].id, runs'[c].copyrighted>> \in Verdict(tasks[c])
                  /\ IF runs'[c].copyrighted
                     THEN runs'[c].posts = <<>>
                     ELSE /\ Cardinality(CallsOf(runs'[c].posts,
                                                 "UploadToDatabaseAudio")) = 1
                          /\ Cardinality(CallsOf(runs'[c].posts,
                                                 "UploadToDatabaseVideo")) = 1
                          /\ Len(runs'[c].posts) = 2]_vars

\* One call has returned a duplicate and made no notification call, another
\* has returned no duplicate with a failed notification call.
C31_Witness ==
    \E c, d \in DOMAIN runs :
        /\ runs[c].kind = "verdict" /\ runs[c].copyrighted
        /\ runs[d].kind = "verdict" /\ ~runs[d].copyrighted
        /\ \E i \in DOMAIN runs[d].posts : runs[d].posts[i].err

\* ------------------------------------------------------------------- C32

\* C32: the notification of the video modality carries the URL of the
\* task's video file in the video bucket, and the notification of the audio
\* modality the URL of its audio file in the audio bucket.
C32_NotificationLinks ==
    \A c \in DOMAIN runs :
        runs[c].kind = "verdict" =>
            \A i \in DOMAIN runs[c].posts :
                LET post == runs[c].posts[i] IN
                /\ post.call = "UploadToDatabaseVideo" => post.req.link = "videoUrl"
                /\ post.call = "UploadToDatabaseAudio" => post.req.link = "audioUrl"

\* ------------------------------------------------------------------- C33

\* C33: a runCopyright call whose submission hit the reference index
\* returns the id of the matched reference with copyrighted = true, and
\* makes no notification call.
C33_FastPathVerdict ==
    \A c \in DOMAIN runs :
        (calls[c].videos # <<>> /\ runs[c].kind = "verdict") =>
            /\ runs[c].id = calls[c].videos[1].video_id
            /\ runs[c].copyrighted
            /\ runs[c].posts = <<>>

\* ------------------------------------------------------------------- C34

\* C34: a CreateTask call that has returned an error has left no row in the
\* task table.
C34_ErrorLeavesNoRow ==
    \A c \in DOMAIN calls :
        calls[c].ret = ReturnErr => c \notin DOMAIN tasks

\* ------------------------------------------------------------------- C35

\* The topic holds exactly one result of task t.
DeliveredOnce(topic, t) ==
    Cardinality({i \in DOMAIN topic : Unmarshal(topic[i]).TaskID = t}) = 1

\* The loop runs, in this step, the status write of its completion check
\* for task t.
StatusWriteStep(loop, loopNext, t) ==
    /\ loop.pc = "status"
    /\ loopNext # loop
    /\ Unmarshal(loop.value).TaskID = t

\* C35: when each result of a task is delivered exactly once and nothing
\* fails, the status write to done is performed at most once across the two
\* loops: no loop runs a successful status write for a task that is done
\* already.
C35_SingleStatusWrite ==
    [][\A t \in DOMAIN tasks :
           (/\ ~logged'
            /\ DeliveredOnce(videoCopyrightTopic, t)
            /\ DeliveredOnce(audioCopyrightTopic, t)
            /\ \/ StatusWriteStep(videoLoop, videoLoop', t)
               \/ StatusWriteStep(audioLoop, audioLoop', t))
               => tasks[t].status # TaskStatusDone]_vars

\* ------------------------------------------------------------------- C36

\* The requests a step appends to an input topic.
NewRequests(topic, topicNext) ==
    {topicNext[i] : i \in (Len(topic) + 1)..Len(topicNext)}

\* C36: a request that carries task id t is published, on either input
\* topic, only when the row of t exists with status in_progress; and every
\* result a loop has consumed and decoded, the workers answering published
\* requests only, is the result of a task that exists.
C36_RequestAfterRow ==
    [][/\ \A m \in NewRequests(audioInput, audioInput')
                       \cup NewRequests(videoInput, videoInput') :
              /\ m.task_id \in DOMAIN tasks
              /\ tasks[m.task_id].status = TaskStatusInProgress
       /\ videoLoop'.pc = "reread" =>
              Unmarshal(videoLoop'.value).TaskID \in DOMAIN tasks'
       /\ audioLoop'.pc = "reread" =>
              Unmarshal(audioLoop'.value).TaskID \in DOMAIN tasks']_vars

\* Both requests of a task are published and a loop has consumed a result
\* of that task.
C36_Witness ==
    \E t \in DOMAIN tasks :
        /\ t \in RequestedAudio
        /\ t \in RequestedVideo
        /\ \/ videoLoop.pc = "reread" /\ Unmarshal(videoLoop.value).TaskID = t
           \/ audioLoop.pc = "reread" /\ Unmarshal(audioLoop.value).TaskID = t

\* ------------------------------------------------------------------- C37

\* A task id no CreateTask call of the run is given: the id of a row the
\* store does not hold (a result left on a topic from before the table was
\* recreated, or a worker answering with an id of its own).
StrayID == MaxCalls + 1

\* A result that carries the stray id is produced on one of the two result
\* topics.
PublishStrayResult ==
    /\ Len(videoCopyrightTopic) + Len(audioCopyrightTopic) < MaxResults
    /\ \E topic \in {VideoCopyProduceTopic, Wav2vecProduceTopic} :
           \E copy \in ResultCandidates :
               Produce(topic, MarshalResponse(StrayID, copy))
    /\ UNCHANGED <<apiVars, queryVars, fusionVars, storeVars, audioInput, videoInput,
                   ctlVars>>

StrayNext ==
    \/ Next
    \/ PublishStrayResult

\* The controller with results of unknown tasks on its result topics.
SpecStray == Init /\ [][StrayNext]_vars

\* The loop consumes, in this step, a decoded result of a task the store
\* does not hold.
ConsumesStray(loop, loopNext) ==
    /\ loop.pc = "read"
    /\ loopNext.pc = "reread"
    /\ Unmarshal(loopNext.value).TaskID \notin DOMAIN tasks

\* The loop runs, in this step, a statement of checkTaskDone for such a
\* result.
ChecksStray(loop, loopNext) ==
    /\ loop.pc # "read"
    /\ loopNext # loop
    /\ Unmarshal(loop.value).TaskID \notin DOMAIN tasks

\* C37: a consumed result whose task id matches no row creates no row and
\* leaves every row as it was, in the candidate write and in the completion
\* check, and after the check the loop is back at ReadMessage for the next
\* message.
C37_UnknownTaskIgnored ==
    [][/\ (ConsumesStray(videoLoop, videoLoop') \/ ConsumesStray(audioLoop, audioLoop'))
              => tasks' = tasks
       /\ ChecksStray(videoLoop, videoLoop')
              => tasks' = tasks /\ videoLoop' = AtRead(videoLoop.offset)
       /\ ChecksStray(audioLoop, audioLoop')
              => tasks' = tasks /\ audioLoop' = AtRead(audioLoop.offset)]_vars

\* The topic holds a result of an unknown task with a message after it, and
\* the loop has consumed both.
StrayPassed(topic, loop) ==
    \E i \in DOMAIN topic :
        /\ topic[i] # Malformed
        /\ Unmarshal(topic[i]).TaskID \notin DOMAIN tasks
        /\ i < loop.offset

C37_Witness ==
    /\ Len(tasks) > 0
    /\ \/ StrayPassed(videoCopyrightTopic, videoLoop)
       \/ StrayPassed(audioCopyrightTopic, audioLoop)

\* ------------------------------------------------------------------- C38

\* C38: for every limit and offset of the unsigned range GetTasks accepts,
\* the limit and the offset handed to the store are the caller's values.
C38_NoWrapAround ==
    query.op = "GetTasks" =>
        /\ query.arg.Limit = query.limit
        /\ query.arg.Offset = query.offset

\* ------------------------------------------------------------------- C39

\* CreateTask calls running while GetTasks calls are served.
PageNext ==
    \/ CreateTaskInsert
    \/ \E c \in DOMAIN calls : CreateTaskWriteVideo(c)
    \/ \E c \in DOMAIN calls : CreateTaskWriteAudio(c)
    \/ GetTasksCall
    \/ GetTasksTotal

SpecPage == Init /\ [][PageNext]_vars

\* C39: the page and the total one GetTasks call returns describe one state
\* of the store, CreateTask running concurrently or not: the total is the
\* number of rows the table had when the page was read.
C39_PageAndTotalAgree ==
    (GetTasksReturned /\ ~query.ret.err) => query.ret.total = query.seen

=============================================================================
